---- MODULE Spec2Model ----
(***************************************************************************)
(* pbns: a Pushbullet notification daemon (src/pbns.py).                   *)
(*                                                                         *)
(* The model follows the source: the connectivity prober                   *)
(* (wait_for_internet), the push classifier (on_push with handle_push,     *)
(* handle_mirror, check_if_dismissed), the notification sink (notify) and  *)
(* the supervisor loop of main.                                            *)
(*                                                                         *)
(* Python values are modelled as follows.                                  *)
(*   - a str is a sequence of one-character strings, so that format() and  *)
(*     strip() are computed character by character;                        *)
(*   - a dict is a function whose DOMAIN is the set of keys it carries, so *)
(*     that `"k" in d.keys()` is "k" \in DOMAIN d and d["k"] on a missing  *)
(*     key is a KeyError;                                                  *)
(*   - the pair `title, body = None, None` is the empty sequence, a        *)
(*     computed pair is <<title, body>>.                                   *)
(***************************************************************************)
EXTENDS Integers, Sequences, FiniteSets, TLC

VARIABLES
    pc,             \* position of main: which statement runs next
    phase,          \* which wait_for_internet call site: "init" (l.216) or "recover" (l.223)
    apiKeyFile,     \* the API key file exists
    passwordFile,   \* the password file exists
    password,       \* value returned by get_encryption_password
    exitStatus,     \* <<status>> once the process has exited, <<>> while it runs
    listeners,      \* number of Listener objects constructed by connect()
    listenerClosed, \* listener.close() has been called
    runs,           \* number of listener.run_forever() calls
    attempts,       \* create_connection calls of the current wait_for_internet call
    sleeps,         \* time.sleep(10) calls of the current wait_for_internet call
    probeLog,       \* what the current wait_for_internet call did, in order
    probeResult,    \* how the most recent wait_for_internet call ended
    streamEnd,      \* how the most recent run_forever call ended
    interruptedIn,  \* where a KeyboardInterrupt was delivered, "none" if none was
    runsAtInterrupt,\* value of runs when the KeyboardInterrupt was delivered
    history,        \* the account's push history, newest first (get_pushes())
    lastEvent,      \* the event most recently passed to on_push
    calls,          \* what on_push did for lastEvent: collaborator calls and outcome
    probesReturned, \* number of wait_for_internet calls that have returned
    delivered,      \* number of events passed to on_push, counted up to MaxEvents
    notifyLog       \* the notify calls of those events: <<event number, title, body>>

vars == <<pc, phase, apiKeyFile, passwordFile, password, exitStatus, listeners,
          listenerClosed, runs, attempts, sleeps, probeLog, probeResult,
          streamEnd, interruptedIn, runsAtInterrupt, history, lastEvent, calls,
          probesReturned, delivered, notifyLog>>

supVars == <<pc, phase, apiKeyFile, passwordFile, password, exitStatus, listeners,
             listenerClosed, runs, streamEnd, interruptedIn, runsAtInterrupt>>
probeVars == <<attempts, sleeps, probeLog, probeResult>>
pushVars == <<history, lastEvent, calls>>
logVars == <<probesReturned, delivered, notifyLog>>

(***************************************************************************)
(* Bounds of the model.                                                    *)
(***************************************************************************)
\* transient connect failures allowed within one wait_for_internet call
MaxFails == 2
\* listener.run_forever() calls allowed in one behaviour
MaxRuns == 2
\* history items kept by the modelled account
MaxHist == 2
\* events whose notify calls are kept in notifyLog
MaxEvents == 2

(***************************************************************************)
(* Python str and dict helpers.                                            *)
(***************************************************************************)
EmptyDict == [k \in {} |-> TRUE]

Has(d, k) == k \in DOMAIN d

Whitespace == {" "}

RECURSIVE LStrip(_)
LStrip(s) == IF s # <<>> /\ Head(s) \in Whitespace THEN LStrip(Tail(s)) ELSE s

RECURSIVE RStrip(_)
RStrip(s) ==
    IF s # <<>> /\ s[Len(s)] \in Whitespace THEN RStrip(SubSeq(s, 1, Len(s) - 1)) ELSE s

\* str.strip()
Strip(s) == RStrip(LStrip(s))

\* "[{}] {}".format(a, t)
FormatMirrorTitle(a, t) == <<"[">> \o a \o <<"]", " ">> \o t

(***************************************************************************)
(* Collaborators of the classifier: the account (pushbullet.Pushbullet)    *)
(* and json.  A ciphertext is modelled by the structure it encrypts, a     *)
(* decrypted text by the structure it serialises; decryption needs the     *)
(* encryption password given to the account at construction.               *)
(***************************************************************************)
\* Python's None, the value of get_encryption_password when the file is missing
NONE == "None"
Passphrase == "secret"

Ciphertext(s) == [cipher |-> s]

\* account._decrypt_data(ciphertext): the decrypted text, or an error when the
\* account was built with encryption_password=None or the argument is no
\* ciphertext
decrypt_data(pw, c) ==
    IF pw = NONE \/ ~Has(c, "cipher")
    THEN [err |-> "DecryptError"]
    ELSE [err |-> "none", text |-> [json |-> c.cipher]]

\* json.loads(text)
json_loads(t) == t.json

(***************************************************************************)
(* What one on_push call did: the lists get_pushes() returned, the         *)
(* arguments of _decrypt_data, the (title, body) pair computed, the        *)
(* payload the dismissed check read, the arguments of notify, the          *)
(* (title, body) handed to the D-Bus Notify call, and the exception        *)
(* raised, if any.                                                         *)
(***************************************************************************)
NoCalls ==
    [fetched |-> <<>>, decrypt |-> <<>>, cand |-> <<>>, final |-> EmptyDict,
     gate |-> FALSE, notify |-> <<>>, dbus |-> <<>>, raised |-> "none"]

Raise(c, e) == [c EXCEPT !.raised = e]

\* mutant: the sink is called twice for one event
notify_twice(c, title, body) ==
    [c EXCEPT !.notify = @ \o <<(<<title, body>>), (<<title, body>>)>>,
              !.dbus = @ \o <<(<<Strip(title), Strip(body)>>),
                              (<<Strip(title), Strip(body)>>)>>]

\* notify(title, body): one D-Bus Notify call with the stripped title and body
notify(c, title, body) ==
    [c EXCEPT !.notify = Append(@, <<title, body>>),
              !.dbus = Append(@, <<Strip(title), Strip(body)>>)]

\* mutant: the body is stripped by the classifier
handle_mirror_strip(push) ==
    IF Has(push, "application_name") /\ Has(push, "title") /\ Has(push, "body")
    THEN [err |-> "none",
          pair |-> <<FormatMirrorTitle(push.application_name, push.title),
                     Strip(push.body)>>]
    ELSE [err |-> "KeyError"]

\* handle_mirror(push): ("[appname] title", body)
handle_mirror(push) ==
    IF Has(push, "application_name") /\ Has(push, "title") /\ Has(push, "body")
    THEN [err |-> "none",
          pair |-> <<FormatMirrorTitle(push.application_name, push.title),
                     push.body>>]
    ELSE [err |-> "KeyError"]

\* mutant: sender_name is preferred to the item's own title
handle_push_sender_first(push) ==
    LET title == IF Has(push, "sender_name") THEN push.sender_name
                 ELSE IF Has(push, "title") THEN push.title
                 ELSE <<>>
    IN  IF Has(push, "body")
        THEN [err |-> "none", pair |-> <<title, push.body>>]
        ELSE [err |-> "KeyError"]

\* mutant: no fallback to sender_name
handle_push_no_sender(push) ==
    LET title == IF ~Has(push, "title") THEN <<>> ELSE push.title
    IN  IF Has(push, "body")
        THEN [err |-> "none", pair |-> <<title, push.body>>]
        ELSE [err |-> "KeyError"]

\* handle_push(push): (title, body) of a history item
handle_push(push) ==
    LET title == IF ~Has(push, "title")
                 THEN IF Has(push, "sender_name") THEN push.sender_name ELSE <<>>
                 ELSE push.title
    IN  IF Has(push, "body")
        THEN [err |-> "none", pair |-> <<title, push.body>>]
        ELSE [err |-> "KeyError"]

\* mutant: the dismissed flag is never honoured
check_if_dismissed_never(push) == FALSE

\* check_if_dismissed(push)
check_if_dismissed(push) == Has(push, "dismissed") /\ push.dismissed

\* Truth value of a title or body: None and "" are false
Truthy(pair, i) == pair # <<>> /\ pair[i] # <<>>

\* `if title and body and not check_if_dismissed(push): notify(title, body)`
notify_if_eligible(c, pair, push) ==
    LET c1 == [c EXCEPT !.cand = pair, !.final = push, !.gate = TRUE]
    IN  IF Truthy(pair, 1) /\ Truthy(pair, 2) /\ ~check_if_dismissed(push)
        THEN notify(c1, pair[1], pair[2])
        ELSE c1

\* mutant: the oldest history item is taken
latest_push_oldest(pushes) == pushes[Len(pushes)]

\* account.get_pushes()[0]
latest_push(pushes) == pushes[1]

\* the `tickle` branch of on_push
on_tickle(hist, c) ==
    LET c1 == [c EXCEPT !.fetched = Append(@, hist)]
    IN  IF hist = <<>>
        THEN Raise(c1, "IndexError")
        ELSE LET push == latest_push(hist)
                 r == handle_push(push)
             IN  IF r.err # "none"
                 THEN Raise(c1, r.err)
                 ELSE notify_if_eligible(c1, r.pair, push)

\* mutant: the whole envelope is handed to the decryption
ciphertext_of_envelope(push) == push

\* the argument of account._decrypt_data: push["ciphertext"]
ciphertext_of(push) == push.ciphertext

\* `if push["type"] == "mirror": title, body = handle_mirror(push)` and the gate
on_inner(c, push) ==
    IF ~Has(push, "type")
    THEN Raise(c, "KeyError")
    ELSE IF push.type = "mirror"
         THEN LET r == handle_mirror(push)
              IN  IF r.err # "none"
                  THEN Raise(c, r.err)
                  ELSE notify_if_eligible(c, r.pair, push)
         ELSE notify_if_eligible(c, <<>>, push)

\* the `push` branch of on_push
on_inline(pw, outer, c) ==
    IF ~Has(outer, "push")
    THEN Raise(c, "KeyError")
    ELSE LET push == outer.push
         IN  IF ~Has(push, "encrypted")
             THEN Raise(c, "KeyError")
             ELSE IF push.encrypted
                  THEN IF ~Has(push, "ciphertext")
                       THEN Raise(c, "KeyError")
                       ELSE LET arg == ciphertext_of(push)
                                c1 == [c EXCEPT !.decrypt = Append(@, arg)]
                                d == decrypt_data(pw, arg)
                            IN  IF d.err # "none"
                                THEN Raise(c1, d.err)
                                ELSE on_inner(c1, json_loads(d.text))
                  ELSE on_inner(c, push)

\* mutant: every event that is not a push is handled as a tickle
is_tickle_not_push(push) == push.type # "push"

\* `push["type"] == "tickle"`
is_tickle(push) == push.type = "tickle"

\* mutant: a dismissed flag on the event itself suppresses the notification
on_push_outer_dismissed(hist, pw, push) ==
    IF ~Has(push, "type")
    THEN Raise(NoCalls, "KeyError")
    ELSE IF check_if_dismissed(push)
         THEN [NoCalls EXCEPT !.final = push, !.gate = TRUE]
         ELSE IF is_tickle(push)
              THEN on_tickle(hist, NoCalls)
              ELSE IF push.type = "push"
                   THEN on_inline(pw, push, NoCalls)
                   ELSE notify_if_eligible(NoCalls, <<>>, push)

\* on_push(account, push), the account being its history and its password
on_push(hist, pw, push) ==
    IF ~Has(push, "type")
    THEN Raise(NoCalls, "KeyError")
    ELSE IF is_tickle(push)
         THEN on_tickle(hist, NoCalls)
         ELSE IF push.type = "push"
              THEN on_inline(pw, push, NoCalls)
              ELSE notify_if_eligible(NoCalls, <<>>, push)

(***************************************************************************)
(* Inputs: history items, payloads and events.                             *)
(***************************************************************************)
\* a dict with key k absent, or present with one of the values
Opt(k, values) == {EmptyDict} \cup {(k :> v) : v \in values}

\* items of the account's push history
Items ==
    {t @@ s @@ b @@ d :
        t \in Opt("title", {<<"t">>}),
        s \in Opt("sender_name", {<<"s">>}),
        b \in Opt("body", {<<>>, <<" ", "b">>}),
        d \in Opt("dismissed", {FALSE, TRUE})}

\* items that reach the account while the daemon runs
NewItems ==
    {[title |-> <<"n">>, body |-> <<"n">>],
     [sender_name |-> <<"x">>, body |-> <<"y">>, dismissed |-> TRUE]}

\* mirrored phone notifications
MirrorPayloads ==
    {("type" :> "mirror") @@ a @@ t @@ b @@ d :
        a \in Opt("application_name", {<<"A">>}),
        t \in Opt("title", {<<"t", " ">>}),
        b \in Opt("body", {<<>>, <<" ", "b">>}),
        d \in Opt("dismissed", {FALSE, TRUE})}
    \cup
    {[type |-> "mirror", application_name |-> <<>>, title |-> <<>>, body |-> <<"b">>],
     [type |-> "mirror", application_name |-> <<>>, title |-> <<>>, body |-> <<>>]}

\* payloads of another type, or of none
OtherPayloads ==
    {[type |-> "dismissal", title |-> <<"t">>, body |-> <<"b">>],
     [type |-> "dismissal", title |-> <<"t">>, body |-> <<"b">>, dismissed |-> TRUE],
     [title |-> <<"t">>, body |-> <<"b">>]}

Structures == MirrorPayloads \cup OtherPayloads

\* a structure that is notified when it arrives
GoodMirror ==
    [type |-> "mirror", application_name |-> <<"A">>, title |-> <<"t", " ">>,
     body |-> <<" ", "b">>]

\* the structure as an inline plaintext payload
Plain(s) == ("encrypted" :> FALSE) @@ s

\* the structure as an encrypted payload
Encrypted(s) == [encrypted |-> TRUE, ciphertext |-> Ciphertext(s)]

InnerPayloads ==
    {Plain(s) : s \in Structures}
    \cup {Encrypted(s) : s \in Structures}
    \cup {GoodMirror, [type |-> "dismissal"]}
    \cup {[encrypted |-> TRUE],
          ("dismissed" :> TRUE) @@ Encrypted(GoodMirror),
          ("type" :> "dismissal") @@ Encrypted(GoodMirror)}

PushEvents ==
    {[type |-> "push", push |-> p] : p \in InnerPayloads}
    \cup {[type |-> "push"],
          [type |-> "push", dismissed |-> TRUE, push |-> Plain(GoodMirror)],
          [type |-> "push", dismissed |-> TRUE, push |-> Encrypted(GoodMirror)]}

TickleEvents ==
    {[type |-> "tickle"],
     [type |-> "tickle", subtype |-> "push"],
     [type |-> "tickle", title |-> <<"e">>, body |-> <<"e">>, dismissed |-> TRUE]}

OtherEvents ==
    {[type |-> "nop"],
     [type |-> "nop", title |-> <<"t">>, body |-> <<"b">>],
     [type |-> "mirror", application_name |-> <<"A">>, title |-> <<"t">>,
      body |-> <<"b">>, encrypted |-> FALSE],
     [subtype |-> "push"]}

Events == TickleEvents \cup PushEvents \cup OtherEvents

\* the events and histories of the supervisor's behaviours
SupEvents ==
    {[type |-> "tickle"],
     [type |-> "nop"],
     [type |-> "push", push |-> Plain(GoodMirror)],
     [type |-> "push", push |-> Encrypted(GoodMirror)]}

SupItems == {[title |-> <<"n">>, body |-> <<"n">>]}

NoEvent == EmptyDict

(***************************************************************************)
(* The connectivity prober, wait_for_internet.                             *)
(***************************************************************************)
\* timeout of one connect attempt, seconds
ConnectTimeout == 30
\* sleep between two attempts, seconds
RetryDelay == 10

\* mutant: every exception of create_connection is caught
Transient_all == {"gaierror", "timeout", "refused", "oserror"}

\* exceptions of create_connection that the prober catches
Transient == {"gaierror", "timeout", "refused"}
\* outcomes of create_connection; "oserror" stands for any exception not caught
ConnectOutcomes == {"ok", "oserror"} \cup Transient

ConnectEntry(r) == [op |-> "connect", timeout |-> ConnectTimeout, result |-> r]
SleepEntry == [op |-> "sleep", secs |-> RetryDelay]

\* a wait_for_internet call begins
ProbeStarts ==
    /\ attempts' = 0
    /\ sleeps' = 0
    /\ probeLog' = <<>>
    /\ probeResult' = "running"

\* the process ends: sys.exit(status), or an uncaught exception
Exits(status) ==
    /\ pc' = "done"
    /\ exitStatus' = <<status>>

\* mutant: no sleep between two attempts
ProbeSleep_skipped ==
    /\ pc = "sleep"
    /\ pc' = "probe"
    /\ UNCHANGED <<attempts, sleeps, probeLog, probeResult>>
    /\ UNCHANGED <<phase, apiKeyFile, passwordFile, password, exitStatus, listeners,
                   listenerClosed, runs, streamEnd, interruptedIn, runsAtInterrupt>>
    /\ UNCHANGED pushVars
    /\ UNCHANGED logVars

\* mutant: the prober gives up after a failed attempt
ProbeSleep_gives_up ==
    /\ pc = "sleep"
    /\ probeResult' = "raised"
    /\ Exits(1)
    /\ UNCHANGED <<attempts, sleeps, probeLog>>
    /\ UNCHANGED <<phase, apiKeyFile, passwordFile, password, listeners,
                   listenerClosed, runs, streamEnd, interruptedIn, runsAtInterrupt>>
    /\ UNCHANGED pushVars
    /\ UNCHANGED logVars

\* `except (...): time.sleep(10)`, then the loop tries again
ProbeSleep ==
    /\ pc = "sleep"
    /\ sleeps' = sleeps + 1
    /\ probeLog' = Append(probeLog, SleepEntry)
    /\ pc' = "probe"
    /\ UNCHANGED <<attempts, probeResult>>
    /\ UNCHANGED <<phase, apiKeyFile, passwordFile, password, exitStatus, listeners,
                   listenerClosed, runs, streamEnd, interruptedIn, runsAtInterrupt>>
    /\ UNCHANGED pushVars
    /\ UNCHANGED logVars

\* one pass of the body of `while True` in wait_for_internet: create_connection
\* ends with outcome r
ProbeConnect(r) ==
    /\ pc = "probe"
    /\ r \in Transient => attempts < MaxFails
    /\ attempts' = attempts + 1
    /\ probeLog' = Append(probeLog, ConnectEntry(r))
    /\ sleeps' = sleeps
    /\ IF r = "ok"
       THEN \* break: wait_for_internet returns to main
            /\ probeResult' = "returned"
            /\ pc' = IF phase = "init" THEN "connect" ELSE "run"
            /\ UNCHANGED exitStatus
       ELSE IF r \in Transient
            THEN /\ probeResult' = probeResult
                 /\ pc' = "sleep"
                 /\ UNCHANGED exitStatus
            ELSE \* not caught in wait_for_internet, not caught in main
                 /\ probeResult' = "raised"
                 /\ Exits(1)
    /\ UNCHANGED <<phase, apiKeyFile, passwordFile, password, listeners,
                   listenerClosed, runs, streamEnd, interruptedIn, runsAtInterrupt>>
    /\ UNCHANGED pushVars
    /\ probesReturned' = IF r = "ok" THEN probesReturned + 1 ELSE probesReturned
    /\ UNCHANGED <<delivered, notifyLog>>

(***************************************************************************)
(* main: credentials, the first probe, connect, and the supervisor loop.   *)
(***************************************************************************)
\* mutant: a missing API key file does not stop the start
GetApiKey_ignores_missing ==
    /\ pc = "get_api_key"
    /\ pc' = "get_password"
    /\ UNCHANGED exitStatus
    /\ UNCHANGED <<phase, apiKeyFile, passwordFile, password, listeners,
                   listenerClosed, runs, streamEnd, interruptedIn, runsAtInterrupt>>
    /\ UNCHANGED probeVars
    /\ UNCHANGED pushVars
    /\ UNCHANGED logVars

\* api_key = get_api_key(API_KEY_PATH): sys.exit(1) when the file is missing
GetApiKey ==
    /\ pc = "get_api_key"
    /\ IF apiKeyFile
       THEN /\ pc' = "get_password"
            /\ UNCHANGED exitStatus
       ELSE Exits(1)
    /\ UNCHANGED <<phase, apiKeyFile, passwordFile, password, listeners,
                   listenerClosed, runs, streamEnd, interruptedIn, runsAtInterrupt>>
    /\ UNCHANGED probeVars
    /\ UNCHANGED pushVars
    /\ UNCHANGED logVars

\* password = get_encryption_password(PASSWORD_PATH): None when the file is
\* missing; then main calls wait_for_internet() (l.216)
GetPassword ==
    /\ pc = "get_password"
    /\ password' = IF passwordFile THEN Passphrase ELSE NONE
    /\ pc' = "probe"
    /\ phase' = "init"
    /\ ProbeStarts
    /\ UNCHANGED <<apiKeyFile, passwordFile, exitStatus, listeners,
                   listenerClosed, runs, streamEnd, interruptedIn, runsAtInterrupt>>
    /\ UNCHANGED pushVars
    /\ UNCHANGED logVars

\* listener = connect(api_key, password)
Connect ==
    /\ pc = "connect"
    /\ listeners' = listeners + 1
    /\ pc' = "run"
    /\ UNCHANGED <<phase, apiKeyFile, passwordFile, password, exitStatus,
                   listenerClosed, runs, streamEnd, interruptedIn, runsAtInterrupt>>
    /\ UNCHANGED probeVars
    /\ UNCHANGED pushVars
    /\ UNCHANGED logVars

\* listener.run_forever() is called
RunForever ==
    /\ pc = "run"
    /\ runs < MaxRuns
    /\ runs' = runs + 1
    /\ streamEnd' = "running"
    /\ pc' = "stream"
    /\ UNCHANGED <<phase, apiKeyFile, passwordFile, password, exitStatus, listeners,
                   listenerClosed, interruptedIn, runsAtInterrupt>>
    /\ UNCHANGED probeVars
    /\ UNCHANGED pushVars
    /\ UNCHANGED logVars

\* the stream delivers event e: the listener calls on_push(pb_account, e); an
\* exception raised by on_push is handed to on_error
Deliver(e) ==
    /\ pc = "stream"
    /\ lastEvent' = e
    /\ calls' = on_push(history, password, e)
    /\ pc' = IF calls'.raised = "none" THEN "stream" ELSE "on_error"
    /\ IF delivered < MaxEvents
       THEN /\ delivered' = delivered + 1
            /\ notifyLog' = notifyLog \o
                   [i \in 1..Len(calls'.notify) |->
                       <<delivered + 1, calls'.notify[i][1], calls'.notify[i][2]>>]
       ELSE UNCHANGED <<delivered, notifyLog>>
    /\ UNCHANGED probesReturned
    /\ UNCHANGED history
    /\ UNCHANGED <<phase, apiKeyFile, passwordFile, password, exitStatus, listeners,
                   listenerClosed, runs, streamEnd, interruptedIn, runsAtInterrupt>>
    /\ UNCHANGED probeVars

\* the transport fails: the listener hands the exception to on_error
StreamFails ==
    /\ pc = "stream"
    /\ pc' = "on_error"
    /\ UNCHANGED <<phase, apiKeyFile, passwordFile, password, exitStatus, listeners,
                   listenerClosed, runs, streamEnd, interruptedIn, runsAtInterrupt>>
    /\ UNCHANGED probeVars
    /\ UNCHANGED pushVars
    /\ UNCHANGED logVars

\* mutant: the loop goes back to the probe that precedes connect()
LoopProbes_reconnects ==
    /\ pc' = "probe"
    /\ phase' = "init"
    /\ ProbeStarts
    /\ UNCHANGED exitStatus

\* the second statement of the loop body: wait_for_internet() (l.223), reached
\* when run_forever has returned
LoopProbes ==
    /\ pc' = "probe"
    /\ phase' = "recover"
    /\ ProbeStarts
    /\ UNCHANGED exitStatus

\* on_error(_, exception): `raise exception`, inside the listener.  Whether
\* run_forever lets the exception out or ends normally is the library's
\* choice; main catches nothing but KeyboardInterrupt, so an exception that
\* leaves run_forever ends the process with a traceback
on_error(propagates) ==
    /\ pc = "on_error"
    /\ IF propagates
       THEN /\ streamEnd' = "raised"
            /\ Exits(1)
            /\ UNCHANGED phase
            /\ UNCHANGED probeVars
       ELSE /\ streamEnd' = "returned"
            /\ LoopProbes
    /\ UNCHANGED <<apiKeyFile, passwordFile, password, listeners,
                   listenerClosed, runs, interruptedIn, runsAtInterrupt>>
    /\ UNCHANGED pushVars
    /\ UNCHANGED logVars

\* mutant: the loop calls run_forever again without probing
StreamReturns_noprobe ==
    /\ pc = "stream"
    /\ streamEnd' = "returned"
    /\ pc' = "run"
    /\ UNCHANGED <<phase, exitStatus>>
    /\ UNCHANGED probeVars
    /\ UNCHANGED <<apiKeyFile, passwordFile, password, listeners,
                   listenerClosed, runs, interruptedIn, runsAtInterrupt>>
    /\ UNCHANGED pushVars
    /\ UNCHANGED logVars

\* mutant: main exits when run_forever returns
StreamReturns_exits ==
    /\ pc = "stream"
    /\ streamEnd' = "returned"
    /\ Exits(0)
    /\ UNCHANGED phase
    /\ UNCHANGED probeVars
    /\ UNCHANGED <<apiKeyFile, passwordFile, password, listeners,
                   listenerClosed, runs, interruptedIn, runsAtInterrupt>>
    /\ UNCHANGED pushVars
    /\ UNCHANGED logVars

\* run_forever returns without an exception (the connection was closed)
StreamReturns ==
    /\ pc = "stream"
    /\ streamEnd' = "returned"
    /\ LoopProbes
    /\ UNCHANGED <<apiKeyFile, passwordFile, password, listeners,
                   listenerClosed, runs, interruptedIn, runsAtInterrupt>>
    /\ UNCHANGED pushVars
    /\ UNCHANGED logVars

\* main is inside `try:` (l.220-223): the loop, run_forever and the probe of l.223
InTry ==
    \/ pc \in {"run", "stream", "on_error"}
    \/ pc \in {"probe", "sleep"} /\ phase = "recover"

\* where main is, for a KeyboardInterrupt
Where ==
    IF pc \in {"probe", "sleep"}
    THEN IF phase = "init" THEN "probe_init" ELSE "probe_recover"
    ELSE IF pc \in {"stream", "on_error"} THEN "stream" ELSE pc

\* mutant: the handler exits without closing the listener
except_KeyboardInterrupt_noclose ==
    /\ UNCHANGED listenerClosed
    /\ Exits(0)

\* `except KeyboardInterrupt: listener.close(); sys.exit()`
except_KeyboardInterrupt ==
    /\ listenerClosed' = TRUE
    /\ Exits(0)

\* a KeyboardInterrupt is delivered to the process.  Outside `try:` nothing
\* catches it: the interpreter ends with a traceback and a non-zero status
\* (1, or 130 when it re-raises the signal)
Interrupt ==
    /\ pc \in {"probe", "sleep", "connect", "run", "stream", "on_error"}
    /\ interruptedIn' = Where
    /\ runsAtInterrupt' = runs
    /\ IF InTry
       THEN except_KeyboardInterrupt
       ELSE /\ \E status \in {1, 130} : Exits(status)
            /\ UNCHANGED listenerClosed
    /\ streamEnd' = IF pc \in {"stream", "on_error"} THEN "interrupt" ELSE streamEnd
    /\ probeResult' = IF pc \in {"probe", "sleep"} THEN "interrupted" ELSE probeResult
    /\ UNCHANGED <<attempts, sleeps, probeLog>>
    /\ UNCHANGED <<phase, apiKeyFile, passwordFile, password, listeners, runs>>
    /\ UNCHANGED pushVars
    /\ UNCHANGED logVars

\* the account receives a push: get_pushes() returns it first from now on
AccountReceives(item) ==
    /\ pc # "done"
    /\ history' = SubSeq(<<item>> \o history, 1,
                         IF Len(history) < MaxHist THEN Len(history) + 1 ELSE MaxHist)
    /\ UNCHANGED <<lastEvent, calls>>
    /\ UNCHANGED supVars
    /\ UNCHANGED probeVars
    /\ UNCHANGED logVars

(***************************************************************************)
(* The daemon from its start.                                              *)
(***************************************************************************)
Init ==
    /\ pc = "get_api_key"
    /\ phase = "init"
    /\ apiKeyFile \in BOOLEAN
    /\ passwordFile \in BOOLEAN
    /\ password = NONE
    /\ exitStatus = <<>>
    /\ listeners = 0
    /\ listenerClosed = FALSE
    /\ runs = 0
    /\ attempts = 0
    /\ sleeps = 0
    /\ probeLog = <<>>
    /\ probeResult = "none"
    /\ streamEnd = "none"
    /\ interruptedIn = "none"
    /\ runsAtInterrupt = 0
    /\ history \in {<<>>} \cup {<<i>> : i \in SupItems}
    /\ lastEvent = NoEvent
    /\ calls = NoCalls
    /\ probesReturned = 0
    /\ delivered = 0
    /\ notifyLog = <<>>

Next ==
    \/ GetApiKey
    \/ GetPassword
    \/ \E r \in ConnectOutcomes : ProbeConnect(r)
    \/ ProbeSleep
    \/ Connect
    \/ RunForever
    \/ \E e \in SupEvents : Deliver(e)
    \/ StreamFails
    \/ \E propagates \in BOOLEAN : on_error(propagates)
    \/ StreamReturns
    \/ Interrupt
    \/ \E i \in SupItems : AccountReceives(i)

Spec == Init /\ [][Next]_vars

(***************************************************************************)
(* The daemon with a connection that comes back: a sleep of the prober     *)
(* ends, and connect attempts that are made again and again eventually     *)
(* succeed.  The stream is silent here: it delivers no event, it only      *)
(* fails, returns or is interrupted.                                       *)
(***************************************************************************)
NextQuiet ==
    \/ GetApiKey
    \/ GetPassword
    \/ \E r \in ConnectOutcomes : ProbeConnect(r)
    \/ ProbeSleep
    \/ Connect
    \/ RunForever
    \/ StreamFails
    \/ \E propagates \in BOOLEAN : on_error(propagates)
    \/ StreamReturns
    \/ Interrupt

SpecFair ==
    /\ Init
    /\ [][NextQuiet]_vars
    /\ WF_vars(ProbeSleep)
    /\ SF_vars(ProbeConnect("ok"))

(***************************************************************************)
(* The classifier on its own: the daemon is streaming (first run of        *)
(* run_forever after a first probe that succeeded at once), the account    *)
(* holds any history, and the stream delivers any event.  The order log    *)
(* of the first events is not kept here: it starts full.                   *)
(***************************************************************************)
InitPush ==
    /\ pc = "stream"
    /\ phase = "init"
    /\ apiKeyFile = TRUE
    /\ passwordFile \in BOOLEAN
    /\ password = IF passwordFile THEN Passphrase ELSE NONE
    /\ exitStatus = <<>>
    /\ listeners = 1
    /\ listenerClosed = FALSE
    /\ runs = 1
    /\ attempts = 1
    /\ sleeps = 0
    /\ probeLog = <<ConnectEntry("ok")>>
    /\ probeResult = "returned"
    /\ streamEnd = "running"
    /\ interruptedIn = "none"
    /\ runsAtInterrupt = 0
    /\ history \in {<<>>} \cup {<<i>> : i \in Items}
    /\ lastEvent = NoEvent
    /\ calls = NoCalls
    /\ probesReturned = 1
    /\ delivered = MaxEvents
    /\ notifyLog = <<>>

NextPush ==
    \/ \E e \in Events : Deliver(e)
    \/ \E i \in NewItems : AccountReceives(i)

SpecPush == InitPush /\ [][NextPush]_vars

(***************************************************************************)
(* Vocabulary of the properties.                                           *)
(***************************************************************************)
IsTickle(e) == Has(e, "type") /\ e.type = "tickle"

\* a push event whose inner payload carries the encrypted flag
IsInline(e) ==
    /\ Has(e, "type") /\ e.type = "push"
    /\ Has(e, "push") /\ Has(e.push, "encrypted")

\* a push event whose inner payload is encrypted and carries a ciphertext
IsEncryptedPush(e) ==
    /\ IsInline(e)
    /\ e.push.encrypted
    /\ Has(e.push, "ciphertext")

\* the same event with structure s as its plaintext inner payload
WithPlain(e, s) == [e EXCEPT !.push = Plain(s)]

\* the structure a push event is classified from, when there is one: the
\* plaintext inner payload, or what the ciphertext decrypts to
HasStructure(e, pw) ==
    IsInline(e) /\ (e.push.encrypted => Has(e.push, "ciphertext") /\ pw # NONE)

StructureOf(e) == IF e.push.encrypted THEN e.push.ciphertext.cipher ELSE e.push

Dismissed(p) == Has(p, "dismissed") /\ p.dismissed = TRUE

NonEmptyField(p, k) == Has(p, k) /\ p[k] # <<>>

\* the history item a tickle was answered with
Fetched == calls.fetched[1][1]

TickleFetched == IsTickle(lastEvent) /\ calls.fetched # <<>> /\ calls.fetched[1] # <<>>

(***************************************************************************)
(* C1.  If listener.run_forever() raises an exception other than a         *)
(* KeyboardInterrupt, the process does not terminate: the supervisor       *)
(* probes again and streams again.                                         *)
(* The code refutes it: main catches KeyboardInterrupt only.               *)
(***************************************************************************)
C1_StreamExceptionRecovers ==
    streamEnd = "raised" => pc # "done" /\ exitStatus = <<>>

(***************************************************************************)
(* C2, as stated.  A KeyboardInterrupt delivered during the initial probe, *)
(* while streaming or during a recovery probe ends the loop: the listener  *)
(* is closed when one exists, run_forever is not called again, the exit    *)
(* status is 0.                                                            *)
(***************************************************************************)
C2_InterruptExitsZero ==
    interruptedIn \in {"probe_init", "stream", "probe_recover"} =>
        /\ pc = "done"
        /\ exitStatus = <<0>>
        /\ listeners > 0 => listenerClosed
        /\ runs = runsAtInterrupt

(***************************************************************************)
(* C2, amended.  A KeyboardInterrupt delivered inside main's try block     *)
(* (while streaming or during a recovery probe) closes the listener,       *)
(* leaves run_forever uncalled from then on and exits with status 0.  One  *)
(* delivered during the initial probe, which is before the try block, is   *)
(* not caught: the process ends with a non-zero status, no listener        *)
(* exists and run_forever has never been called.                           *)
(***************************************************************************)
C2_InterruptInTryExitsZero ==
    /\ interruptedIn \in {"run", "stream", "probe_recover"} =>
        /\ pc = "done"
        /\ exitStatus = <<0>>
        /\ listeners = 1 /\ listenerClosed
        /\ runs = runsAtInterrupt
    /\ interruptedIn = "probe_init" =>
        /\ pc = "done"
        /\ exitStatus \notin {<<>>, <<0>>}
        /\ listeners = 0 /\ ~listenerClosed
        /\ runs = 0 /\ runsAtInterrupt = 0

C2_Witness ==
    /\ interruptedIn = "probe_recover"
    /\ sleeps = 1
    /\ exitStatus = <<0>>
    /\ runs = 1

(***************************************************************************)
(* C3.  Every notify call has a non-empty title, a non-empty body and a    *)
(* final payload whose dismissed flag is absent or false; for a final      *)
(* payload with dismissed true there is no notify call.                    *)
(***************************************************************************)
C3_NotifyOnlyEligible ==
    /\ Len(calls.notify) <= 1
    /\ \A i \in 1..Len(calls.notify) :
          /\ calls.notify[i][1] # <<>>
          /\ calls.notify[i][2] # <<>>
    /\ TickleFetched =>
          (calls.notify # <<>> => ~Dismissed(Fetched))
    /\ (IsInline(lastEvent) /\ HasStructure(lastEvent, password)) =>
          (calls.notify # <<>> => ~Dismissed(StructureOf(lastEvent)))
    /\ (Has(lastEvent, "type") /\ lastEvent.type \notin {"tickle", "push"}) =>
          (calls.notify # <<>> => ~Dismissed(lastEvent))

\* a dismissed mirror with a title and a body: nothing is sent
C3_Witness ==
    /\ IsInline(lastEvent) /\ HasStructure(lastEvent, password)
    /\ Dismissed(StructureOf(lastEvent))
    /\ calls.cand # <<>> /\ calls.cand[1] # <<>> /\ calls.cand[2] # <<>>
    /\ calls.notify = <<>>

(***************************************************************************)
(* C4.  For an encrypted push, _decrypt_data is called exactly once, with  *)
(* the payload's ciphertext, and what reaches the sink is what a push      *)
(* with the decrypted structure as plaintext payload produces.             *)
(***************************************************************************)
C4_EncryptedLikePlain ==
    IsEncryptedPush(lastEvent) =>
        /\ calls.decrypt = <<lastEvent.push.ciphertext>>
        /\ password # NONE =>
              LET plain == on_push(history, password,
                                   WithPlain(lastEvent, StructureOf(lastEvent)))
              IN  /\ calls.notify = plain.notify
                  /\ calls.dbus = plain.dbus
                  /\ calls.raised = plain.raised
                  /\ plain.decrypt = <<>>

C4_Witness ==
    /\ IsEncryptedPush(lastEvent)
    /\ password # NONE
    /\ calls.decrypt = <<Ciphertext(GoodMirror)>>
    /\ calls.notify = <<<<FormatMirrorTitle(<<"A">>, <<"t", " ">>), <<" ", "b">>>>>>

(***************************************************************************)
(* C5.  For every tickle, repeated or not, get_pushes() is called exactly  *)
(* once and title, body and the dismissed check come from the first        *)
(* returned item alone: the outcome is that of a bare tickle against a     *)
(* history holding only that item, whatever the event's other fields, the  *)
(* older items and the earlier events.                                     *)
(***************************************************************************)
C5_TickleUsesLatestOnly ==
    [][(pc = "stream" /\ IsTickle(lastEvent') /\ history' = history) =>
        /\ calls'.fetched = <<history>>
        /\ calls'.decrypt = <<>>
        /\ history # <<>> =>
              LET alone == on_push(<<history[1]>>, NONE, [type |-> "tickle"])
              IN  /\ calls'.cand = alone.cand
                  /\ calls'.final = alone.final
                  /\ calls'.notify = alone.notify
                  /\ calls'.dbus = alone.dbus
                  /\ calls'.raised = alone.raised
                  /\ calls'.raised = "none" => calls'.final = history[1]
      ]_vars

\* a tickle with fields of its own, answered from a two-item history whose
\* older item would be notified and whose first item is dismissed
C5_Witness ==
    /\ IsTickle(lastEvent) /\ Has(lastEvent, "title")
    /\ Len(calls.fetched) = 1 /\ Len(calls.fetched[1]) = 2
    /\ calls.fetched[1][2] = [title |-> <<"n">>, body |-> <<"n">>]
    /\ Dismissed(Fetched)
    /\ calls.notify = <<>>

(***************************************************************************)
(* C6, as stated.  The title of a tickle-fetched item is sender_name if    *)
(* present, else the item's title if present, else empty; the body is the  *)
(* item's body.                                                            *)
(***************************************************************************)
C6_SenderNameFirst ==
    (TickleFetched /\ Has(Fetched, "body")) =>
        calls.cand =
            << IF Has(Fetched, "sender_name") THEN Fetched.sender_name
               ELSE IF Has(Fetched, "title") THEN Fetched.title
               ELSE <<>>,
               Fetched.body >>

(***************************************************************************)
(* C6, amended.  The title of a tickle-fetched item is the item's own      *)
(* title if present, else sender_name if present, else empty; when the     *)
(* item carries both, the title used is the item's title.  The body is     *)
(* the item's body.                                                        *)
(***************************************************************************)
C6_TitleFirst ==
    (TickleFetched /\ Has(Fetched, "body")) =>
        calls.cand =
            << IF Has(Fetched, "title") THEN Fetched.title
               ELSE IF Has(Fetched, "sender_name") THEN Fetched.sender_name
               ELSE <<>>,
               Fetched.body >>

C6_Witness ==
    /\ TickleFetched
    /\ Has(Fetched, "title") /\ Has(Fetched, "sender_name") /\ Has(Fetched, "body")
    /\ Fetched.title # Fetched.sender_name
    /\ calls.notify = <<<<Fetched.title, Fetched.body>>>>

(***************************************************************************)
(* C7.  A tickle-fetched item with sender_name and no title gets           *)
(* sender_name as title; one with neither gets the empty title and no      *)
(* notification is sent, whatever the body.                                *)
(***************************************************************************)
C7_TitleFallback ==
    TickleFetched =>
        /\ (Has(Fetched, "sender_name") /\ ~Has(Fetched, "title")
                /\ Has(Fetched, "body")) =>
              /\ calls.cand = <<Fetched.sender_name, Fetched.body>>
              /\ (Fetched.body # <<>> /\ ~Dismissed(Fetched)) =>
                    calls.notify = <<<<Fetched.sender_name, Fetched.body>>>>
        /\ (~Has(Fetched, "sender_name") /\ ~Has(Fetched, "title")) =>
              /\ calls.notify = <<>>
              /\ calls.dbus = <<>>
              /\ Has(Fetched, "body") => calls.cand = <<<<>>, Fetched.body>>

\* neither title nor sender_name, a body, not dismissed: nothing is sent
C7_Witness ==
    /\ TickleFetched
    /\ ~Has(Fetched, "sender_name") /\ ~Has(Fetched, "title")
    /\ NonEmptyField(Fetched, "body") /\ ~Dismissed(Fetched)
    /\ calls.raised = "none"
    /\ calls.notify = <<>>

(***************************************************************************)
(* C8.  For a mirror payload with non-empty application_name, title and    *)
(* body the classifier's title is "[" + application_name + "] " + title    *)
(* and its body is the payload's body, unchanged; that pair is what        *)
(* notify receives unless the payload is dismissed.                        *)
(***************************************************************************)
C8_MirrorVerbatim ==
    (HasStructure(lastEvent, password)
        /\ Has(StructureOf(lastEvent), "type")
        /\ StructureOf(lastEvent).type = "mirror"
        /\ NonEmptyField(StructureOf(lastEvent), "application_name")
        /\ NonEmptyField(StructureOf(lastEvent), "title")
        /\ NonEmptyField(StructureOf(lastEvent), "body")) =>
        LET m == StructureOf(lastEvent)
            title == <<"[">> \o m.application_name \o <<"]", " ">> \o m.title
        IN  /\ calls.raised = "none"
            /\ calls.cand = <<title, m.body>>
            /\ calls.notify = IF Dismissed(m) THEN <<>> ELSE <<<<title, m.body>>>>

\* a body with leading whitespace reaches notify as it is
C8_Witness ==
    /\ HasStructure(lastEvent, password)
    /\ ~lastEvent.push.encrypted
    /\ calls.notify = <<<< <<"[", "A", "]", " ", "t", " ">>, <<" ", "b">> >>>>
    /\ calls.dbus = <<<< <<"[", "A", "]", " ", "t">>, <<"b">> >>>>

(***************************************************************************)
(* C9.  An event whose outer type is neither "tickle" nor "push" causes    *)
(* no get_pushes call, no decrypt call and no notify call, and on_push     *)
(* returns without raising.                                                *)
(***************************************************************************)
C9_OtherTypesIgnored ==
    (Has(lastEvent, "type") /\ lastEvent.type \notin {"tickle", "push"}) =>
        /\ calls.fetched = <<>>
        /\ calls.decrypt = <<>>
        /\ calls.notify = <<>>
        /\ calls.dbus = <<>>
        /\ calls.cand = <<>>
        /\ calls.raised = "none"

\* an event of another type that looks like a mirror, with a history whose
\* first item a tickle would notify
C9_Witness ==
    /\ Has(lastEvent, "type") /\ lastEvent.type = "mirror"
    /\ history # <<>> /\ on_push(history, password, [type |-> "tickle"]).notify # <<>>
    /\ calls.gate

(***************************************************************************)
(* C10.  When create_connection fails n times with a caught error and      *)
(* then succeeds, wait_for_internet makes n+1 attempts, sleeps the retry    *)
(* delay after each failure and not after the success, and returns; for    *)
(* timeout, timeout, success it makes 3 attempts.                          *)
(***************************************************************************)
ProbeShape(n) ==
    /\ attempts = n + 1
    /\ sleeps = n
    /\ Len(probeLog) = 2 * n + 1
    /\ \A i \in 1..n :
          /\ probeLog[2 * i - 1].op = "connect"
          /\ probeLog[2 * i - 1].result \in Transient
          /\ probeLog[2 * i] = [op |-> "sleep", secs |-> 10]
    /\ probeLog[2 * n + 1].op = "connect"
    /\ probeLog[2 * n + 1].result = "ok"

Failures == Cardinality({i \in 1..Len(probeLog) :
                            probeLog[i].op = "connect" /\ probeLog[i].result # "ok"})

ConnectResults ==
    LET idx == {i \in 1..Len(probeLog) : probeLog[i].op = "connect"}
    IN  {<<Cardinality({j \in idx : j <= i}), probeLog[i].result>> : i \in idx}

C10_ProbeAttempts ==
    /\ probeResult = "returned" => ProbeShape(Failures)
    /\ (probeResult = "returned"
          /\ ConnectResults = {<<1, "timeout">>, <<2, "timeout">>, <<3, "ok">>}) =>
          attempts = 3 /\ sleeps = 2
    /\ probeResult = "running" =>
          /\ attempts = Failures
          /\ sleeps = IF pc = "sleep" THEN attempts - 1 ELSE attempts

C10_Witness ==
    /\ probeResult = "returned"
    /\ phase = "recover"
    /\ ConnectResults = {<<1, "timeout">>, <<2, "timeout">>, <<3, "ok">>}
    /\ attempts = 3

(***************************************************************************)
(* C11.  A connect attempt that raises an exception outside address        *)
(* resolution failure, timeout and connection refused is the last thing    *)
(* wait_for_internet does: no sleep, no retry, the exception leaves it     *)
(* (and, main catching nothing, ends the process).                         *)
(***************************************************************************)
C11_OtherExceptionPropagates ==
    /\ \A i \in 1..Len(probeLog) :
          (probeLog[i].op = "connect"
              /\ probeLog[i].result \notin {"ok", "gaierror", "timeout", "refused"}) =>
              /\ i = Len(probeLog)
              /\ probeResult = "raised"
              /\ pc = "done"
    /\ probeResult = "raised" =>
          /\ probeLog # <<>>
          /\ probeLog[Len(probeLog)].op = "connect"
          /\ probeLog[Len(probeLog)].result = "oserror"
          /\ sleeps = attempts - 1
          /\ exitStatus = <<1>>

C11_Witness ==
    /\ probeResult = "raised"
    /\ phase = "recover"
    /\ attempts = 2 /\ sleeps = 1

(***************************************************************************)
(* C12.  Without the API key file the process exits with status 1 before   *)
(* any probe, subscription or notification; without the password file      *)
(* only, the start goes on to the probe and the stream, with no            *)
(* passphrase.                                                             *)
(***************************************************************************)
C12_MissingCredentials ==
    /\ ~apiKeyFile =>
          /\ pc \in {"get_api_key", "done"}
          /\ pc = "done" => exitStatus = <<1>>
          /\ probeResult = "none" /\ probeLog = <<>> /\ attempts = 0
          /\ probesReturned = 0
          /\ listeners = 0 /\ runs = 0
          /\ calls = NoCalls /\ notifyLog = <<>> /\ delivered = 0
    /\ (apiKeyFile /\ ~passwordFile /\ pc \notin {"get_api_key", "get_password"}) =>
          /\ password = NONE
          /\ probeResult # "none"
          /\ pc = "done" =>
                \/ interruptedIn # "none"
                \/ probeResult = "raised"
                \/ streamEnd = "raised"

C12_Witness ==
    /\ apiKeyFile /\ ~passwordFile
    /\ pc = "stream"
    /\ password = NONE
    /\ listeners = 1
    /\ calls.notify # <<>>

(***************************************************************************)
(* C13, as stated.  Every recover cycle passes through connect(): a new    *)
(* subscription is constructed before streaming resumes, and none is run   *)
(* twice.                                                                  *)
(***************************************************************************)
C13_FreshListenerPerRun ==
    pc = "stream" => listeners = runs

(***************************************************************************)
(* C13, amended.  connect() is called once, before the loop: a recover     *)
(* cycle probes and then calls run_forever() again on the same             *)
(* subscription, so the account handle and the subscription are created    *)
(* once and that one subscription is run once per cycle.                   *)
(***************************************************************************)
C13_OneListenerReused ==
    /\ listeners <= 1
    /\ runs >= 1 => listeners = 1
    /\ pc = "connect" => phase = "init" /\ runs = 0 /\ listeners = 0
    /\ phase = "recover" => pc # "connect"

C13_Witness ==
    /\ pc = "stream"
    /\ phase = "recover"
    /\ runs = 2
    /\ listeners = 1

(***************************************************************************)
(* C14.  Every run_forever() call, the first and the later ones, follows   *)
(* a wait_for_internet() call that returned after the previous run ended   *)
(* (or after the start); no run starts while a probe is failing.           *)
(***************************************************************************)
C14_ProbeGatesEveryRun ==
    /\ runs <= probesReturned
    /\ pc = "run" =>
          /\ probesReturned = runs + 1
          /\ probeResult = "returned"
          /\ probeLog[Len(probeLog)].result = "ok"
    /\ pc \in {"stream", "on_error"} =>
          /\ probesReturned = runs
          /\ probeResult = "returned"
    /\ pc \in {"probe", "sleep"} =>
          /\ probesReturned = runs
          /\ probeResult = "running"

C14_Witness ==
    /\ pc = "stream"
    /\ runs = 2 /\ probesReturned = 2
    /\ sleeps = 2

(***************************************************************************)
(* C15.  When run_forever() returns without raising, main does not exit:   *)
(* it runs wait_for_internet() and, once that returns, run_forever()       *)
(* again.  The loop is left only by a KeyboardInterrupt or an exception    *)
(* that nothing catches.                                                   *)
(***************************************************************************)
C15_ReturnRestartsLoop ==
    /\ [][(streamEnd = "running" /\ streamEnd' = "returned") =>
            /\ pc' = "probe" /\ phase' = "recover"
            /\ probeResult' = "running" /\ attempts' = 0
            /\ exitStatus' = <<>>]_vars
    /\ [][(phase = "recover" /\ probeResult = "running" /\ probeResult' = "returned") =>
            /\ pc' = "run"
            /\ exitStatus' = <<>>]_vars
    /\ [][(pc = "run" /\ pc' # "run") =>
            \/ pc' = "stream" /\ runs' = runs + 1
            \/ pc' = "done" /\ interruptedIn' # "none"]_vars
    /\ []((pc = "done" /\ runs >= 1) =>
            \/ interruptedIn # "none"
            \/ probeResult = "raised"
            \/ streamEnd = "raised")

C15_Witness ==
    /\ streamEnd = "running"
    /\ pc = "stream"
    /\ runs = 2
    /\ lastEvent = NoEvent
    /\ interruptedIn = "none"

(***************************************************************************)
(* C16.  When on_push raises, no notification is sent for the event, the   *)
(* error handler re-raises, and a recover cycle follows instead of the     *)
(* end of the process.                                                     *)
(* The code refutes the last part: see C1.                                 *)
(***************************************************************************)
C16_HandlerErrorRecovers ==
    (calls.raised # "none" /\ interruptedIn = "none" /\ probeResult # "raised") =>
        /\ calls.notify = <<>>
        /\ pc # "done"

(***************************************************************************)
(* C17.  Suppression is decided by the dismissed flag of the final         *)
(* payload: the history item of a tickle, the (decrypted) inner payload    *)
(* of a push.  A dismissed flag on the event or on the encrypted envelope  *)
(* changes nothing.                                                        *)
(***************************************************************************)
C17_DismissedOfFinalPayload ==
    /\ (TickleFetched /\ Has(Fetched, "body")) =>
          /\ calls.final = Fetched
          /\ calls.notify # <<>> <=>
                (Truthy(calls.cand, 1) /\ Truthy(calls.cand, 2) /\ ~Dismissed(Fetched))
    /\ (HasStructure(lastEvent, password) /\ calls.raised = "none") =>
          /\ calls.final = StructureOf(lastEvent)
          /\ calls.notify # <<>> <=>
                (Truthy(calls.cand, 1) /\ Truthy(calls.cand, 2)
                    /\ ~Dismissed(StructureOf(lastEvent)))

\* a dismissed envelope around a mirror that is not dismissed: it is notified
C17_Witness ==
    /\ IsEncryptedPush(lastEvent)
    /\ Dismissed(lastEvent.push)
    /\ ~Dismissed(StructureOf(lastEvent))
    /\ password # NONE
    /\ Len(calls.notify) = 1

(***************************************************************************)
(* C18.  A push whose inner payload is a plaintext mirror with the         *)
(* encrypted flag false or absent is classified as a mirror, with no       *)
(* decrypt call and no exception.                                          *)
(* The code refutes the absent case: push["encrypted"] is a KeyError.      *)
(***************************************************************************)
C18_PlainMirrorNoDecrypt ==
    (Has(lastEvent, "type") /\ lastEvent.type = "push" /\ Has(lastEvent, "push")
        /\ (Has(lastEvent.push, "encrypted") => lastEvent.push.encrypted = FALSE)
        /\ Has(lastEvent.push, "type") /\ lastEvent.push.type = "mirror"
        /\ Has(lastEvent.push, "application_name")
        /\ Has(lastEvent.push, "title")
        /\ Has(lastEvent.push, "body")) =>
        /\ calls.decrypt = <<>>
        /\ calls.raised = "none"
        /\ calls.cand = << <<"[">> \o lastEvent.push.application_name
                              \o <<"]", " ">> \o lastEvent.push.title,
                           lastEvent.push.body >>

(***************************************************************************)
(* C19.  wait_for_internet has no retry limit: after a caught failure it   *)
(* sleeps and tries again, it never returns without a successful attempt   *)
(* and never raises on a caught failure; when connect attempts             *)
(* eventually succeed it eventually ends, returning on the first success   *)
(* without a further sleep.                                                *)
(***************************************************************************)
C19_ProbeRetriesUntilSuccess ==
    /\ [](probeResult = "returned" =>
            /\ probeLog[Len(probeLog)] = [op |-> "connect", timeout |-> 30, result |-> "ok"]
            /\ \A i \in 1..(Len(probeLog) - 1) :
                  probeLog[i].op = "connect" => probeLog[i].result # "ok")
    /\ [](probeResult = "raised" =>
            /\ probeLog[Len(probeLog)].op = "connect"
            /\ probeLog[Len(probeLog)].result \notin {"gaierror", "timeout", "refused"})
    /\ [](pc \in {"probe", "sleep"} => probeResult = "running")
    /\ [][pc = "sleep" => pc' \in {"sleep", "probe", "done"}]_vars
    /\ [][(pc = "sleep" /\ pc' = "done") => interruptedIn' # "none"]_vars
    /\ (probeResult = "running") ~> (probeResult # "running")

C19_Witness ==
    /\ probeResult = "returned"
    /\ phase = "init"
    /\ attempts = 3 /\ sleeps = 2
    /\ pc = "connect"

(***************************************************************************)
(* C20.  Events are handled one after the other in delivery order: an      *)
(* event causes at most one notify call, and the notify calls follow the   *)
(* order of the events that caused them.                                   *)
(***************************************************************************)
C20_SequentialInOrder ==
    /\ Len(calls.notify) <= 1
    /\ Len(calls.dbus) = Len(calls.notify)
    /\ Len(notifyLog) <= delivered
    /\ \A i \in 1..Len(notifyLog) : notifyLog[i][1] \in 1..delivered
    /\ \A i \in 1..Len(notifyLog) : \A j \in 1..Len(notifyLog) :
          i < j => notifyLog[i][1] < notifyLog[j][1]

C20_Witness ==
    /\ delivered = 2
    /\ Len(notifyLog) = 2
    /\ notifyLog[1] = <<1, <<"n">>, <<"n">>>>
    /\ notifyLog[2][1] = 2
    /\ notifyLog[2][2] = <<"[", "A", "]", " ", "t", " ">>

====
